---------------------------- MODULE Spec2Model ----------------------------
(***************************************************************************)
(* Model of the Elysia/Bun user REST API: the process bootstrap            *)
(* (mongoose.connect -> app.listen), the bearer gate registered with       *)
(* onBeforeHandle, and the four UserController routes over the User        *)
(* collection with the UserSchema validators.                              *)
(*                                                                         *)
(* Text values are sequences of characters so that the schema's length     *)
(* validators are computed on real lengths.  The User collection is a      *)
(* function from the assigned ObjectIds to documents.  One request is      *)
(* followed at a time through its two steps (gate, then route handler):    *)
(* every handler touches the collection in exactly one database call, so   *)
(* several requests in flight behave as some serial order of them.         *)
(***************************************************************************)
EXTENDS Integers, Sequences, FiniteSets

VARIABLES
    connection,   \* "pending" | "open" | "failed": the mongoose.connect promise
    listening,    \* TRUE once app.listen has bound the port
    log,          \* console.log output, in order
    users,        \* the User collection: ObjectId -> [name, email, password]
    nextId,       \* the next ObjectId the database assigns
    req,          \* the request in flight, or Idle
    everIds,      \* history: every ObjectId that has been in the collection
    created,      \* history: number of creates that persisted a record
    deleted       \* history: number of deletes that removed a record

vars == <<connection, listening, log, users, nextId, req, everIds, created, deleted>>

---------------------------------------------------------------------------
\* Bounds of the model.

\* ObjectIds the database can assign during a run.
MaxIds == 2

---------------------------------------------------------------------------
\* Text values and the request inputs.

Rep(c, n) == [i \in 1..n |-> c]

Undefined == [defined |-> FALSE, chars |-> <<>>]
Str(s) == [defined |-> TRUE, chars |-> s]

\* UserSchema: minlength / maxlength of name, email and password.
MinLength == 3
MaxLength == 255

TooShort == Str(Rep("a", MinLength - 1))
Ann == Str(Rep("a", MinLength))
Bob == Str(Rep("b", MinLength + 1))
AtMax == Str(Rep("c", MaxLength))
TooLong == Str(Rep("a", MaxLength + 1))

\* context.body as TUser: absent, or an object whose fields may be undefined.
NoBody == [present |-> FALSE, name |-> Undefined, email |-> Undefined, password |-> Undefined]
Body(n, e, p) == [present |-> TRUE, name |-> n, email |-> e, password |-> p]

Bodies ==
    { NoBody,
      Body(Ann, Ann, Ann),
      Body(Bob, Bob, AtMax),
      Body(Undefined, Bob, Bob),
      Body(Ann, Undefined, Ann),
      Body(Bob, Bob, Undefined),
      Body(TooShort, Ann, Ann),
      Body(Ann, Ann, TooLong) }

\* context.params.id: a string that is a 24-hex ObjectId (numbered), or not.
HexParam(n) == [hex |-> TRUE, oid |-> n]
BadParam == [hex |-> FALSE, oid |-> 0]
\* oid 0 is a well-formed ObjectId the database never assigns.
Params == { HexParam(n) : n \in 0..MaxIds } \cup { BadParam }

\* The Authorization header: absent, or a scheme and a credential.
NoHeader == [present |-> FALSE, scheme |-> "", credential |-> <<>>]
Header(s, c) == [present |-> TRUE, scheme |-> s, credential |-> c]

\* The fixed secret "12345678".
Secret == <<"1", "2", "3", "4", "5", "6", "7", "8">>

Headers ==
    { NoHeader,
      Header("Bearer", Secret),
      Header("Bearer", <<>>),
      Header("Bearer", SubSeq(Secret, 1, Len(Secret) - 1)),
      Header("Bearer", Secret \o <<"9">>),
      Header("Basic", Secret) }

Routes == { "POST /user", "GET /user", "PUT /user/:id", "DELETE /user/:id" }

Idle == [stage |-> "idle"]
NoResponse == [kind |-> "none"]

ErrorResponse(m) == [kind |-> "error", message |-> m]
UserResponse(d) == [kind |-> "user", doc |-> d]
UsersResponse(ds) == [kind |-> "users", docs |-> ds]
NullResponse == [kind |-> "null"]
TextResponse(t) == [kind |-> "text", text |-> t]

Doc(id, f) == [id |-> id, name |-> f.name, email |-> f.email, password |-> f.password]

---------------------------------------------------------------------------
\* The persistence model: UserSchema and the mongoose calls the routes make.

UserSchemaPaths == { "name", "email", "password" }

\* required: true -- undefined (and the empty string) fail.
Required(v) == v.defined /\ Len(v.chars) > 0

\* Mutant of MinLengthOk: the bound is off by one.
MinLengthOkOffByOne(v) == ~v.defined \/ Len(v.chars) >= MinLength - 1

\* minlength: 3 -- checked on values that are set.
MinLengthOk(v) == ~v.defined \/ Len(v.chars) >= MinLength

\* maxlength: 255 -- checked on values that are set.
MaxLengthOk(v) == ~v.defined \/ Len(v.chars) <= MaxLength

PathValid(v) == Required(v) /\ MinLengthOk(v) /\ MaxLengthOk(v)

\* The paths of a document that fail UserSchema's validators.
Validate(f) == { p \in UserSchemaPaths : ~PathValid(f[p]) }

Fields(b) == [p \in UserSchemaPaths |-> b[p]]

\* A call's outcome: the collection afterwards, the error thrown ("" when
\* none), and the value the promise resolves to.
Outcome(c, e, v) == [users |-> c, threw |-> e, value |-> v]

Null == [isNull |-> TRUE]

\* Mutant of UserCreate: the document is stored under the first identifier
\* instead of a fresh one.
UserCreateReusingId(coll, nid, f) ==
    IF Validate(f) # {}
    THEN Outcome(coll, "ValidationError", Null)
    ELSE Outcome([i \in DOMAIN coll \cup {1} |-> IF i = 1 THEN f ELSE coll[i]],
                 "", Doc(1, f))

\* user.create({name, email, password}): validate, then insert under the
\* ObjectId nid the database assigns; resolves to the inserted document.
UserCreate(coll, nid, f) ==
    IF Validate(f) # {}
    THEN Outcome(coll, "ValidationError", Null)
    ELSE Outcome([i \in DOMAIN coll \cup {nid} |-> IF i = nid THEN f ELSE coll[i]],
                 "", Doc(nid, f))

\* Mutant of UserFind: findOne instead of find.
UserFindOne(coll) ==
    IF DOMAIN coll = {}
    THEN {}
    ELSE LET i == CHOOSE j \in DOMAIN coll : \A k \in DOMAIN coll : j <= k
         IN { Doc(i, coll[i]) }

\* user.find(): every document of the collection.
UserFind(coll) == { Doc(i, coll[i]) : i \in DOMAIN coll }

\* The update document mongoose sends: keys whose value is undefined are
\* stripped, the others are $set; no validators run (runValidators is not set).
ApplyUpdate(old, upd) ==
    [p \in UserSchemaPaths |-> IF upd[p].defined THEN upd[p] ELSE old[p]]

\* Mutant of UserFindByIdAndUpdate: without {new: true} the document is
\* returned as it was before the update.
UserFindByIdAndUpdateReturningOld(coll, id, upd) ==
    IF ~id.hex
    THEN Outcome(coll, "CastError", Null)
    ELSE IF id.oid \notin DOMAIN coll
    THEN Outcome(coll, "", Null)
    ELSE Outcome([coll EXCEPT ![id.oid] = ApplyUpdate(coll[id.oid], upd)],
                 "", Doc(id.oid, coll[id.oid]))

\* Mutant of UserFindByIdAndUpdate: with {upsert: true} an unmatched
\* identifier inserts the update as a new document.
UserFindByIdAndUpdateUpsert(coll, id, upd) ==
    IF ~id.hex
    THEN Outcome(coll, "CastError", Null)
    ELSE IF id.oid \notin DOMAIN coll
    THEN Outcome([i \in DOMAIN coll \cup {id.oid} |-> IF i = id.oid THEN upd ELSE coll[i]],
                 "", Doc(id.oid, upd))
    ELSE Outcome([coll EXCEPT ![id.oid] = ApplyUpdate(coll[id.oid], upd)],
                 "", Doc(id.oid, ApplyUpdate(coll[id.oid], upd)))

\* user.findByIdAndUpdate(id, {name, email, password}, {new: true}).
\* A string that is no ObjectId fails the cast of _id; no upsert.
UserFindByIdAndUpdate(coll, id, upd) ==
    IF ~id.hex
    THEN Outcome(coll, "CastError", Null)
    ELSE IF id.oid \notin DOMAIN coll
    THEN Outcome(coll, "", Null)
    ELSE Outcome([coll EXCEPT ![id.oid] = ApplyUpdate(coll[id.oid], upd)],
                 "", Doc(id.oid, ApplyUpdate(coll[id.oid], upd)))

\* Mutant of UserFindByIdAndDelete: the filter is dropped and every document
\* is removed.
UserDeleteMany(coll, id) ==
    IF ~id.hex
    THEN Outcome(coll, "CastError", Null)
    ELSE IF id.oid \notin DOMAIN coll
    THEN Outcome(coll, "", Null)
    ELSE Outcome(<<>>, "", Doc(id.oid, coll[id.oid]))

\* Mutant of UserFindByIdAndDelete: an unmatched identifier is an error
\* (orFail).
UserFindByIdAndDeleteOrFail(coll, id) ==
    IF ~id.hex
    THEN Outcome(coll, "CastError", Null)
    ELSE IF id.oid \notin DOMAIN coll
    THEN Outcome(coll, "DocumentNotFoundError", Null)
    ELSE Outcome([i \in DOMAIN coll \ {id.oid} |-> coll[i]],
                 "", Doc(id.oid, coll[id.oid]))

\* user.findByIdAndDelete(id, {new: true}).
UserFindByIdAndDelete(coll, id) ==
    IF ~id.hex
    THEN Outcome(coll, "CastError", Null)
    ELSE IF id.oid \notin DOMAIN coll
    THEN Outcome(coll, "", Null)
    ELSE Outcome([i \in DOMAIN coll \ {id.oid} |-> coll[i]],
                 "", Doc(id.oid, coll[id.oid]))

---------------------------------------------------------------------------
\* The authentication gate.

\* bearer(): the credential of an "Authorization: Bearer <credential>" header.
Bearer(h) ==
    IF h.present /\ h.scheme = "Bearer"
    THEN [defined |-> TRUE, chars |-> h.credential]
    ELSE Undefined

\* !bearer: undefined or the empty string.
Falsy(v) == ~v.defined \/ Len(v.chars) = 0

\* bearer === "12345678"
IsAuthorized(v) == v.defined /\ v.chars = Secret

\* Mutant of GateThrows: only the presence of a credential is checked.
GateThrowsIfMissing(h) == Falsy(Bearer(h))

\* The onBeforeHandle hook throws Error("Unauthorized") or lets the request on.
GateThrows(h) == Falsy(Bearer(h)) \/ ~IsAuthorized(Bearer(h))

---------------------------------------------------------------------------
\* Initial state: the module has been evaluated, mongoose.connect is pending.

Init ==
    /\ connection = "pending"
    /\ listening = FALSE
    /\ log = <<>>
    /\ users = <<>>
    /\ nextId = 1
    /\ req = Idle
    /\ everIds = {}
    /\ created = 0
    /\ deleted = 0

\* History variables follow what happened to the collection.
Observe ==
    /\ everIds' = everIds \cup DOMAIN users'
    /\ deleted' = deleted + Cardinality(DOMAIN users \ DOMAIN users')

Done(resp) == [req EXCEPT !.stage = "done", !.response = resp]

---------------------------------------------------------------------------
\* Process bootstrap.

\* app.listen(PORT, cb) after l was logged: binds the port and logs, or
\* throws (the port is taken), which lands in the .catch and is logged.
Listen(ok, l) ==
    IF ok
    THEN /\ listening' = TRUE
         /\ log' = l \o <<"Server is up and running">>
    ELSE /\ listening' = FALSE
         /\ log' = l \o <<"err">>

\* .then(...): the connection is open; log, then listen.
ConnectResolved ==
    /\ connection = "pending"
    /\ connection' = "open"
    /\ \E ok \in BOOLEAN : Listen(ok, log \o <<"Connected to MongoDB">>)
    /\ UNCHANGED <<users, nextId, req, everIds, created, deleted>>

\* Mutant of ConnectRejected: listen is called after the catch as well.
ConnectRejectedThenListen ==
    /\ connection = "pending"
    /\ connection' = "failed"
    /\ listening' = TRUE
    /\ log' = log \o <<"err", "Server is up and running">>
    /\ UNCHANGED <<users, nextId, req, everIds, created, deleted>>

\* .catch(...): the connection attempt failed; log the error and nothing else.
ConnectRejected ==
    /\ connection = "pending"
    /\ connection' = "failed"
    /\ listening' = listening
    /\ log' = log \o <<"err">>
    /\ UNCHANGED <<users, nextId, req, everIds, created, deleted>>

---------------------------------------------------------------------------
\* Request handling.

\* The requests a client can send: route, Authorization header, :id, body.
Request(r, h, ps, b) ==
    [stage |-> "gate", route |-> r, authorization |-> h, params |-> ps,
     body |-> b, response |-> NoResponse]

Requests ==
    { Request("POST /user", h, <<>>, b) : h \in Headers, b \in Bodies }
    \cup { Request("GET /user", h, <<>>, NoBody) : h \in Headers }
    \cup { Request("PUT /user/:id", h, <<i>>, b) : h \in Headers, i \in Params, b \in Bodies }
    \cup { Request("DELETE /user/:id", h, <<i>>, NoBody) : h \in Headers, i \in Params }

\* The listener accepts a request; only a listening process receives any.
\* (Creates stop arriving once the model's ObjectIds are used up.)
Receive ==
    /\ listening
    /\ req = Idle
    /\ \E r \in Requests :
        /\ r.route = "POST /user" => nextId <= MaxIds
        /\ req' = r
    /\ UNCHANGED <<connection, listening, log, users, nextId, everIds, created, deleted>>

\* app.use(bearer()).onBeforeHandle(...): runs before the route handler of
\* every route registered after it; a throw ends the request with the error.
onBeforeHandle ==
    /\ req.stage = "gate"
    /\ req' = IF GateThrows(req.authorization)
              THEN Done(ErrorResponse("Unauthorized"))
              ELSE [req EXCEPT !.stage = "handler"]
    /\ UNCHANGED <<connection, listening, log, users, nextId, everIds, created, deleted>>

\* app.post("/user"): destructure the body (a TypeError when there is none),
\* user.create, return the new document; a rejected create is thrown on.
PostUser ==
    /\ req.stage = "handler"
    /\ req.route = "POST /user"
    /\ IF ~req.body.present
       THEN /\ req' = Done(ErrorResponse("TypeError"))
            /\ UNCHANGED <<users, nextId, created>>
       ELSE LET o == UserCreate(users, nextId, Fields(req.body)) IN
            /\ users' = o.users
            /\ nextId' = IF o.threw = "" THEN nextId + 1 ELSE nextId
            /\ created' = IF o.threw = "" THEN created + 1 ELSE created
            /\ req' = IF o.threw = ""
                      THEN Done(UserResponse(o.value))
                      ELSE Done(ErrorResponse(o.threw))
    /\ Observe
    /\ UNCHANGED <<connection, listening, log>>

\* app.get("/user"): user.find, return the documents.
GetUser ==
    /\ req.stage = "handler"
    /\ req.route = "GET /user"
    /\ req' = Done(UsersResponse(UserFind(users)))
    /\ UNCHANGED <<connection, listening, log, users, nextId, everIds, created, deleted>>

\* app.put("/user/:id"): destructure, user.findByIdAndUpdate, return its
\* result (the updated document, or null when none matched).
PutUser ==
    /\ req.stage = "handler"
    /\ req.route = "PUT /user/:id"
    /\ IF ~req.body.present
       THEN /\ req' = Done(ErrorResponse("TypeError"))
            /\ UNCHANGED users
       ELSE LET o == UserFindByIdAndUpdate(users, req.params[1], Fields(req.body)) IN
            /\ users' = o.users
            /\ req' = IF o.threw # ""
                      THEN Done(ErrorResponse(o.threw))
                      ELSE IF o.value = Null
                      THEN Done(NullResponse)
                      ELSE Done(UserResponse(o.value))
    /\ Observe
    /\ UNCHANGED <<connection, listening, log, nextId, created>>

\* app.delete("/user/:id"): user.findByIdAndDelete, return "User deleted".
DeleteUser ==
    /\ req.stage = "handler"
    /\ req.route = "DELETE /user/:id"
    /\ LET o == UserFindByIdAndDelete(users, req.params[1]) IN
            /\ users' = o.users
            /\ req' = IF o.threw # ""
                      THEN Done(ErrorResponse(o.threw))
                      ELSE Done(TextResponse("User deleted"))
    /\ Observe
    /\ UNCHANGED <<connection, listening, log, nextId, created>>

\* The response is written and the request is over.
Respond ==
    /\ req.stage = "done"
    /\ req' = Idle
    /\ UNCHANGED <<connection, listening, log, users, nextId, everIds, created, deleted>>

Next ==
    \/ ConnectResolved
    \/ ConnectRejected
    \/ Receive
    \/ onBeforeHandle
    \/ PostUser
    \/ GetUser
    \/ PutUser
    \/ DeleteUser
    \/ Respond

Spec == Init /\ [][Next]_vars

---------------------------------------------------------------------------
\* Vocabulary of the properties, stated on requests and on the collection
\* without the operators of the model above.

\* The request carries exactly "Authorization: Bearer 12345678".
HasSecret(r) ==
    /\ r.authorization.present
    /\ r.authorization.scheme = "Bearer"
    /\ r.authorization.credential = <<"1", "2", "3", "4", "5", "6", "7", "8">>

\* A text value that is present and 3..255 characters long.
WithinBounds(v) == v.defined /\ Len(v.chars) >= 3 /\ Len(v.chars) <= 255

\* A body with name, email and password all present and within bounds.
ValidBody(b) ==
    b.present /\ WithinBounds(b.name) /\ WithinBounds(b.email) /\ WithinBounds(b.password)

\* A body that carries all three fields, whatever their lengths.
FullBody(b) == b.present /\ b.name.defined /\ b.email.defined /\ b.password.defined

\* The request in flight is at the handler of route r.
AtHandler(r) == req.stage = "handler" /\ req.route = r

\* The request in flight has been answered by route r's handling.
Answered(r) == req.stage = "done" /\ req.route = r

\* The :id of the request in flight names a persisted record.
IdMatches == req.params[1].hex /\ req.params[1].oid \in DOMAIN users

\* Every record other than i is the same before and after the step.
OthersUnchanged(i) ==
    \A j \in DOMAIN users \ {i} : j \in DOMAIN users' /\ users'[j] = users[j]

\* C1: on every route a request whose bearer credential is absent or is not
\* exactly the secret is answered "Unauthorized" by the gate, never reaches a
\* route handler, and leaves the persisted records as they were.
C1_GateRejects ==
    /\ [](req.stage = "handler" => HasSecret(req))
    /\ [][(req.stage = "gate" /\ ~HasSecret(req))
            => /\ req'.stage = "done"
               /\ req'.response = [kind |-> "error", message |-> "Unauthorized"]
               /\ users' = users]_vars

W1_Rejected ==
    /\ Answered("DELETE /user/:id")
    /\ ~HasSecret(req)
    /\ req.authorization.present
    /\ IdMatches
    /\ req.response = [kind |-> "error", message |-> "Unauthorized"]

\* C2: an authorized create whose body lacks name, email or password, or has
\* one of them shorter than 3 or longer than 255 characters, is answered with
\* an error and leaves the persisted records as they were.
C2_InvalidCreateRejected ==
    [][(AtHandler("POST /user") /\ ~ValidBody(req.body))
        => /\ req'.stage = "done"
           /\ req'.response.kind = "error"
           /\ users' = users]_vars

W2_InvalidCreate ==
    /\ Answered("POST /user")
    /\ HasSecret(req)
    /\ req.body.present
    /\ req.body.password.defined
    /\ Len(req.body.password.chars) > 255
    /\ req.response.kind = "error"
    /\ DOMAIN users # {}

\* C3: every persisted record has name, email and password present and
\* each 3..255 characters long, whichever route wrote it.
C3_RecordsValid ==
    \A i \in DOMAIN users :
        WithinBounds(users[i].name) /\ WithinBounds(users[i].email)
            /\ WithinBounds(users[i].password)

\* C4: an authorized create with a valid body adds exactly one record, equal
\* to the body, under an identifier no record has or ever had; the response
\* is that record, and it is in the collection a list reads.
C4_CreateAddsFreshRecord ==
    [][(AtHandler("POST /user") /\ ValidBody(req.body))
        => \E i \in DOMAIN users' :
            /\ i \notin DOMAIN users
            /\ i \notin everIds
            /\ DOMAIN users' = DOMAIN users \cup {i}
            /\ OthersUnchanged(i)
            /\ users'[i].name = req.body.name
            /\ users'[i].email = req.body.email
            /\ users'[i].password = req.body.password
            /\ req'.stage = "done"
            /\ req'.response =
                 [kind |-> "user",
                  doc |-> [id |-> i, name |-> req.body.name, email |-> req.body.email,
                           password |-> req.body.password]]]_vars

W4_SecondCreate ==
    /\ Answered("POST /user")
    /\ req.response.kind = "user"
    /\ Cardinality(DOMAIN users) = 2
    /\ req.response.doc.id \in DOMAIN users
    /\ everIds = DOMAIN users

\* C5: an authorized list returns exactly the persisted records and changes
\* none; after N successful creates and no delete it returns N records.
C5_ListReturnsAll ==
    [][AtHandler("GET /user")
        => /\ users' = users
           /\ req'.stage = "done"
           /\ req'.response.kind = "users"
           /\ req'.response.docs =
                { [id |-> i, name |-> users[i].name, email |-> users[i].email,
                   password |-> users[i].password] : i \in DOMAIN users }
           /\ (deleted = 0 => Cardinality(req'.response.docs) = created)]_vars

W5_ListOfTwo ==
    /\ Answered("GET /user")
    /\ req.response.kind = "users"
    /\ Cardinality(req.response.docs) = 2
    /\ created = 2
    /\ deleted = 0

\* C6 as stated: an authorized update of an existing identifier replaces
\* the record's name, email and password with exactly the values of the
\* request body, returns the record with the new values under the same
\* identifier, and leaves every other record unchanged.  (Read for requests
\* that have a body; a field the body lacks has no value to replace with.)
C6_UpdateReplacesWithBody ==
    [][(AtHandler("PUT /user/:id") /\ IdMatches /\ req.body.present)
        => LET i == req.params[1].oid IN
            /\ DOMAIN users' = DOMAIN users
            /\ OthersUnchanged(i)
            /\ users'[i].name = req.body.name
            /\ users'[i].email = req.body.email
            /\ users'[i].password = req.body.password
            /\ req'.stage = "done"
            /\ req'.response =
                 [kind |-> "user",
                  doc |-> [id |-> i, name |-> req.body.name, email |-> req.body.email,
                           password |-> req.body.password]]]_vars

\* C6, amended: an authorized update of an existing identifier whose body
\* carries all three of name, email and password replaces the record's
\* three fields with exactly the values of the body, returns the record with
\* the new values under the same identifier, and leaves every other record
\* unchanged.
C6_FullBodyUpdateReplaces ==
    [][(AtHandler("PUT /user/:id") /\ IdMatches /\ FullBody(req.body))
        => LET i == req.params[1].oid IN
            /\ DOMAIN users' = DOMAIN users
            /\ OthersUnchanged(i)
            /\ users'[i].name = req.body.name
            /\ users'[i].email = req.body.email
            /\ users'[i].password = req.body.password
            /\ req'.stage = "done"
            /\ req'.response =
                 [kind |-> "user",
                  doc |-> [id |-> i, name |-> req.body.name, email |-> req.body.email,
                           password |-> req.body.password]]]_vars

W6_Updated ==
    /\ Answered("PUT /user/:id")
    /\ FullBody(req.body)
    /\ IdMatches
    /\ req.response.kind = "user"
    /\ Len(req.response.doc.name.chars) = 4
    /\ Len(req.response.doc.password.chars) = 255
    /\ users[req.params[1].oid].name = req.body.name
    /\ \E j \in DOMAIN users : j # req.params[1].oid /\ Len(users[j].name.chars) = 3

\* C7 as stated: an authorized update of an identifier that matches no
\* persisted record returns null rather than an error, creates no record and
\* leaves the persisted records unchanged.  (Read for requests that have a
\* body.)
C7_UpdateMissingReturnsNull ==
    [][(AtHandler("PUT /user/:id") /\ ~IdMatches /\ req.body.present)
        => /\ users' = users
           /\ req'.stage = "done"
           /\ req'.response = [kind |-> "null"]]_vars

\* C7, amended: an authorized update of an identifier that matches no
\* persisted record creates no record and leaves the persisted records
\* unchanged; it returns null when the identifier is a well-formed ObjectId
\* and the request has a body, and an error otherwise.
C7_UpdateMissingChangesNothing ==
    [][(AtHandler("PUT /user/:id") /\ ~IdMatches)
        => /\ users' = users
           /\ req'.stage = "done"
           /\ (req.params[1].hex /\ req.body.present) => req'.response = [kind |-> "null"]
           /\ ~(req.params[1].hex /\ req.body.present) => req'.response.kind = "error"]_vars

W7_UpdateOfDeleted ==
    /\ Answered("PUT /user/:id")
    /\ req.params[1].hex
    /\ req.params[1].oid \in everIds \ DOMAIN users
    /\ req.response = [kind |-> "null"]
    /\ DOMAIN users # {}

\* C8: an authorized delete of an existing identifier removes exactly that
\* record and leaves every other record present and unchanged; a removed
\* identifier never comes back, so no later list shows it.
C8_DeleteRemovesExactlyOne ==
    /\ [][(AtHandler("DELETE /user/:id") /\ IdMatches)
            => /\ DOMAIN users' = DOMAIN users \ {req.params[1].oid}
               /\ OthersUnchanged(req.params[1].oid)]_vars
    /\ [][\A i \in everIds \ DOMAIN users : i \notin DOMAIN users']_vars

W8_Deleted ==
    /\ Answered("DELETE /user/:id")
    /\ req.params[1].hex
    /\ req.params[1].oid \in everIds \ DOMAIN users
    /\ req.response = [kind |-> "text", text |-> "User deleted"]
    /\ deleted = 1
    /\ DOMAIN users # {}

\* C9 as stated: an authorized delete of an identifier that matches no
\* record changes no state and returns the confirmation a removing delete
\* returns, whereas an authorized create with a valid body equal to an
\* existing record's fields still adds a distinct record.
C9_DeleteIdempotentCreateNot ==
    /\ [][AtHandler("DELETE /user/:id")
            => /\ req'.stage = "done"
               /\ req'.response = [kind |-> "text", text |-> "User deleted"]
               /\ (~IdMatches => users' = users)]_vars
    /\ [][(AtHandler("POST /user") /\ ValidBody(req.body))
            => Cardinality(DOMAIN users') = Cardinality(DOMAIN users) + 1]_vars

\* C9, amended: an authorized delete of a well-formed identifier that
\* matches no record changes no state and returns the confirmation a
\* removing delete returns (a malformed identifier changes no state and
\* returns an error), whereas an authorized create with a valid body equal to
\* an existing record's fields still adds a distinct record.
C9_DeleteOfAbsentIsNoOp ==
    /\ [][AtHandler("DELETE /user/:id")
            => /\ req'.stage = "done"
               /\ req.params[1].hex => req'.response = [kind |-> "text", text |-> "User deleted"]
               /\ ~req.params[1].hex => req'.response.kind = "error"
               /\ (~IdMatches => users' = users)]_vars
    /\ [][(AtHandler("POST /user") /\ ValidBody(req.body))
            => Cardinality(DOMAIN users') = Cardinality(DOMAIN users) + 1]_vars

W9_NoOpDeleteAndTwins ==
    /\ Answered("DELETE /user/:id")
    /\ req.params[1].hex
    /\ req.params[1].oid \notin everIds
    /\ req.response = [kind |-> "text", text |-> "User deleted"]
    /\ \E i, j \in DOMAIN users : i # j /\ users[i] = users[j]

\* C10: the process listens only once the connection attempt has succeeded;
\* a failed attempt is logged and the process never listens, so no request is
\* handled without an established connection.
C10_ListenOnlyWhenConnected ==
    /\ listening => connection = "open"
    /\ req.stage # "idle" => connection = "open"
    /\ connection = "failed" => (~listening /\ Len(log) > 0)
    /\ connection = "pending" => (~listening /\ log = <<>>)

W10_ConnectFailed ==
    /\ connection = "failed"
    /\ ~listening
    /\ log = <<"err">>
    /\ req = Idle

=============================================================================
